---- MODULE Spec2Model ----
(***************************************************************************)
(* A model of playsound.py.                                                *)
(*                                                                         *)
(* Spec     : the control-string backend (class PlaysoundWin), with        *)
(*            several threads calling PlaysoundWin.play concurrently.      *)
(*            Every statement of play/cleanup that reads or writes the     *)
(*            shared class attributes (alias_id, opend), reads the clock   *)
(*            or sends an MCI command is one step of the calling thread.   *)
(* SpecOSX  : the native-object backend (_playsoundOSX).                   *)
(***************************************************************************)
EXTENDS Integers, Sequences, FiniteSets, TLC

(* ------------------------------ bounds -------------------------------- *)

\* play calls started in one behaviour, over all threads
MaxCalls == 2
\* largest clock reading (seconds)
MaxTime == 1
\* largest media duration reported by "status length" (seconds)
MaxDur == 1
\* MCI commands the native facility fails on its own account
MaxFaults == 1

Threads == {"t1", "t2"}

\* the value of a local that is not bound (yet)
Unbound == -1

(* ------------------------------ state --------------------------------- *)

VARIABLES
    alias_id,   \* PlaysoundWin.alias_id
    opend,      \* PlaysoundWin.opend: set of <<expiry, alias>>
    handles,    \* devices open in the native facility:
                \* [alias, by, nb, until]; until is when the audio ends
    cut,        \* devices a sweep closed before their audio had ended
    clock,      \* what time() returns
    faults,     \* commands failed by the native facility on its own account
    ncalls,     \* play calls started
    pc,         \* per thread: the line of play/cleanup it is about to run
    block,      \* per thread: the block argument of the running call
    alias,      \* per thread: local alias
    tmp,        \* per thread: the value loaded by `cls.alias_id += 1`
    duration,   \* per thread: local duration
    expiry,     \* per thread: local expiry
    now,        \* per thread: cleanup's local now
    it_used,    \* per thread: size of opend recorded by the set iterator
    visited,    \* per thread: entries the set iterator has yielded
    expired,    \* per thread: cleanup's local list expired
    entry,      \* per thread: the loop variable of `for entry in expired`
    log,        \* per thread: commands sent by the running call, in order
    res,        \* per thread: outcome of the running call
    opened,     \* per thread: the running call's open command succeeded
    alone,      \* per thread: no other call ran since this call's sweep began
    failed,     \* per thread: the command mciSendStringW answered non-zero
    swept,      \* per thread: entries a close was sent for at line 85
    \* --- native-object backend (_playsoundOSX) ---
    opc,        \* the line _playsoundOSX is about to run
    osound,     \* local sound, a string (sequence of characters)
    ocwd,       \* what getcwd() returns
    oblock,     \* the block argument
    oloads,     \* results of initWithContentsOfURL_byReference_, in order
    oplaying,   \* nssound.play() was called
    oslept,     \* seconds slept at line 156
    ores        \* outcome of the call

wvars == <<alias_id, opend, handles, cut, clock, faults, ncalls, pc, block, alias,
           tmp, duration, expiry, now, it_used, visited, expired, entry, log,
           res, opened, alone, failed, swept>>
ovars == <<opc, osound, ocwd, oblock, oloads, oplaying, oslept, ores>>

\* _playsoundNix, one call
VARIABLES
    npc,        \* position of the call ("off" when the backend is not run)
    nsound,     \* the target
    ncwd,       \* the working directory
    nexists,    \* whether os.path.exists answers True for the local path
    ngi,        \* whether gi and Gst 1.0 can be imported
    nblock,     \* the block argument
    nplaybin,   \* the playbin element has been constructed
    nuri,       \* playbin.props.uri
    nset_result,\* what set_state(PLAYING) returned
    nstate,     \* the state the pipeline was last asked to take
    npolled,    \* how bus.poll ended
    nres        \* how the call ended

nvars == <<npc, nsound, ncwd, nexists, ngi, nblock, nplaybin, nuri,
           nset_result, nstate, npolled, nres>>

\* the dispatcher and _playsoundAnotherPython
VARIABLES
    system,     \* platform.system() of the host
    procs,      \* the interpreters running the module, the importer first:
                \* [py, main, loadable, parent, bound, code]
    calls       \* the calls of playsound made so far:
                \* [proc, block, exists, pc, thread, exc, child, res]

dvars == <<system, procs, calls>>

\* _handlePathOSX applied to a local path, and the URL decoded again
VARIABLES
    hpc,        \* "start", "normalized", "decoded" ("off" when not run)
    hpath,      \* the path given
    hcwd,       \* os.getcwd()
    hout,       \* what _handlePathOSX returned
    hdec        \* hout percent-decoded

hvars == <<hpc, hpath, hcwd, hout, hdec>>

\* what the steps of one backend leave alone
restWin == <<ovars, nvars, dvars, hvars>>
restOSX == <<wvars, nvars, dvars, hvars>>
restNix == <<wvars, ovars, dvars, hvars>>
restProc == <<wvars, ovars, nvars, hvars>>
restPath == <<wvars, ovars, nvars, dvars>>

vars == <<wvars, ovars, nvars, dvars, hvars>>

tvars == <<block, alias, tmp, duration, expiry, now, it_used, visited,
           expired, entry, log, res, opened, alone, failed, swept>>

(* ------------------- the native facility (winmm MCI) ------------------ *)

OpenAliases == {h.alias : h \in handles}

\* mciSendStringW answers with an error code; the model keeps whether it is
\* non-zero.  A device alias can be opened once, and every other command
\* needs an open device; apart from that the facility may fail a command on
\* its own account (MaxFaults times).  "play" starts the audio, which lasts
\* the duration "status length" reported.
MciMustFail(cmd, a) ==
    IF cmd = "open" THEN a \in OpenAliases ELSE a \notin OpenAliases

MciErrors(cmd, a) ==
    IF MciMustFail(cmd, a) THEN {TRUE}
    ELSE IF faults < MaxFaults THEN {FALSE, TRUE}
    ELSE {FALSE}

\* mci_send_string by thread t: the command is sent (and logged with the
\* method that sent it), the facility answers error; the caller raises
\* mciError when error is TRUE.
mci_send_string(t, cmd, a, error) ==
    /\ error \in MciErrors(cmd, a)
    /\ log' = [log EXCEPT ![t] =
                 Append(@, <<cmd, a, IF pc[t] = "L85" THEN "cleanup" ELSE "play">>)]
    /\ failed' = [failed EXCEPT ![t] = IF error THEN <<cmd, a>> ELSE @]
    /\ faults' = IF error /\ ~MciMustFail(cmd, a) THEN faults + 1 ELSE faults
    /\ handles' =
         IF error THEN handles
         ELSE IF cmd = "open"
              THEN handles \cup {[alias |-> a, by |-> t, nb |-> ~block[t],
                                  until |-> Unbound]}
         ELSE IF cmd = "play"
              THEN {IF h.alias = a
                    THEN [h EXCEPT !.until = clock + duration[t]] ELSE h :
                    h \in handles}
         ELSE IF cmd = "close"
              THEN {h \in handles : h.alias # a}
         ELSE handles
    /\ cut' =
         IF ~error /\ cmd = "close" /\ pc[t] = "L85"
         THEN cut \cup {h \in handles :
                          h.alias = a /\ h.nb /\ h.until # Unbound
                          /\ clock < h.until}
         ELSE cut

\* an exception leaves play: the call is over with that outcome
Raise(t, kind) ==
    /\ pc' = [pc EXCEPT ![t] = "done"]
    /\ res' = [res EXCEPT ![t] = kind]

Goto(t, l) == pc' = [pc EXCEPT ![t] = l]

(* ------------------------------ Init ---------------------------------- *)

WinInit ==
    /\ alias_id = 0
    /\ opend = {}
    /\ handles = {}
    /\ cut = {}
    /\ clock = 0
    /\ faults = 0
    /\ ncalls = 0
    /\ pc = [t \in Threads |-> "idle"]
    /\ block = [t \in Threads |-> TRUE]
    /\ alias = [t \in Threads |-> Unbound]
    /\ tmp = [t \in Threads |-> Unbound]
    /\ duration = [t \in Threads |-> Unbound]
    /\ expiry = [t \in Threads |-> Unbound]
    /\ now = [t \in Threads |-> Unbound]
    /\ it_used = [t \in Threads |-> Unbound]
    /\ visited = [t \in Threads |-> {}]
    /\ expired = [t \in Threads |-> <<>>]
    /\ entry = [t \in Threads |-> <<>>]
    /\ log = [t \in Threads |-> <<>>]
    /\ res = [t \in Threads |-> "none"]
    /\ opened = [t \in Threads |-> FALSE]
    /\ alone = [t \in Threads |-> FALSE]
    /\ failed = [t \in Threads |-> <<>>]
    /\ swept = [t \in Threads |-> {}]

(* --------------------- PlaysoundWin.play, line by line ---------------- *)

\* a thread calls PlaysoundWin.play(sound, block=b); its locals are fresh
Call(t, b) ==
    /\ pc[t] = "idle"
    /\ ncalls < MaxCalls
    /\ ncalls' = ncalls + 1
    /\ Goto(t, "L55")
    /\ block' = [block EXCEPT ![t] = b]
    /\ alone' = [u \in Threads |-> FALSE]
    /\ UNCHANGED <<alias_id, opend, handles, cut, clock, faults, alias, tmp,
                   duration, expiry, now, it_used, visited, expired, entry,
                   log, failed, res, opened, swept>>

\* line 55: alias = str(cls.alias_id)
ReadAlias(t) ==
    /\ pc[t] = "L55"
    /\ alias' = [alias EXCEPT ![t] = alias_id]
    /\ Goto(t, "L56")
    /\ UNCHANGED <<alias_id, opend, handles, cut, clock, faults, ncalls,
                   block, tmp, duration, expiry, now, it_used, visited,
                   expired, entry, log, failed, res, opened, alone, swept>>

\* line 56, first half: cls.alias_id += 1 loads the attribute
IncLoad(t) ==
    /\ pc[t] = "L56"
    /\ tmp' = [tmp EXCEPT ![t] = alias_id]
    /\ Goto(t, "L56s")
    /\ UNCHANGED <<alias_id, opend, handles, cut, clock, faults, ncalls,
                   block, alias, duration, expiry, now, it_used, visited,
                   expired, entry, log, failed, res, opened, alone, swept>>

\* line 56, second half: ... and stores the sum
IncStore(t) ==
    /\ pc[t] = "L56s"
    /\ alias_id' = tmp[t] + 1
    /\ Goto(t, "L59")
    /\ UNCHANGED <<opend, handles, cut, clock, faults, ncalls, block, alias,
                   tmp, duration, expiry, now, it_used, visited, expired,
                   entry, log, failed, res, opened, alone, swept>>

\* lines 58-61: open; mciError becomes PlaysoundException('could not open')
Open(t) ==
    /\ pc[t] = "L59"
    /\ \E error \in BOOLEAN :
         /\ mci_send_string(t, "open", alias[t], error)
         /\ IF error
            THEN Raise(t, "CannotOpen") /\ UNCHANGED opened
            ELSE /\ Goto(t, IF block[t] THEN "L64" ELSE "L67")
                 /\ opened' = [opened EXCEPT ![t] = TRUE]
                 /\ UNCHANGED res
    /\ UNCHANGED <<alias_id, opend, clock, ncalls, block, alias, tmp,
                   duration, expiry, now, it_used, visited, expired, entry,
                   alone, swept>>

\* a command of play after the open: on error mciError leaves play
Command(t, at, cmd, next) ==
    /\ pc[t] = at
    /\ \E error \in BOOLEAN :
         /\ mci_send_string(t, cmd, alias[t], error)
         /\ IF error THEN Raise(t, "mciError")
                     ELSE Goto(t, next) /\ UNCHANGED res

\* a play that goes on to cleanup without the close of line 65
PlayWaitNoClose(t) ==
    /\ Command(t, "L64", "play wait", "L77")
    /\ UNCHANGED <<alias_id, opend, clock, ncalls, block, alias, tmp,
                   duration, expiry, now, it_used, visited, expired, entry,
                   opened, alone, swept>>

\* line 64: mci_send_string('play {} wait', alias)
PlayWait(t) ==
    /\ Command(t, "L64", "play wait", "L65")
    /\ UNCHANGED <<alias_id, opend, clock, ncalls, block, alias, tmp,
                   duration, expiry, now, it_used, visited, expired, entry,
                   opened, alone, swept>>

\* line 65: mci_send_string('close {}', alias)
CloseOwn(t) ==
    /\ Command(t, "L65", "close", "L77")
    /\ UNCHANGED <<alias_id, opend, clock, ncalls, block, alias, tmp,
                   duration, expiry, now, it_used, visited, expired, entry,
                   opened, alone, swept>>

\* line 67: mci_send_string('set {} time format milliseconds', alias)
SetTimeFormat(t) ==
    /\ Command(t, "L67", "set time format", "L68")
    /\ UNCHANGED <<alias_id, opend, clock, ncalls, block, alias, tmp,
                   duration, expiry, now, it_used, visited, expired, entry,
                   opened, alone, swept>>

\* line 68: duration = mci_send_string('status {} length', alias) / 1000
StatusLength(t) ==
    /\ Command(t, "L68", "status length", "L69")
    /\ \E d \in 0..MaxDur :
         duration' = [duration EXCEPT ![t] = IF pc'[t] = "L69" THEN d ELSE @]
    /\ UNCHANGED <<alias_id, opend, clock, ncalls, block, alias, tmp, expiry,
                   now, it_used, visited, expired, entry, opened, alone,
                   swept>>

\* line 69: mci_send_string('play {}', alias)
Play(t) ==
    /\ Command(t, "L69", "play", "L70")
    /\ UNCHANGED <<alias_id, opend, clock, ncalls, block, alias, tmp,
                   duration, expiry, now, it_used, visited, expired, entry,
                   opened, alone, swept>>

\* line 70: expiry = time() + duration
ComputeExpiry(t) ==
    /\ pc[t] = "L70"
    /\ expiry' = [expiry EXCEPT ![t] = clock + duration[t]]
    /\ Goto(t, "L71")
    /\ UNCHANGED <<alias_id, opend, handles, cut, clock, faults, ncalls,
                   block, alias, tmp, duration, now, it_used, visited,
                   expired, entry, log, failed, res, opened, alone, swept>>

\* line 71: cls.opend.add((expiry, alias))
Track(t) ==
    /\ pc[t] = "L71"
    /\ opend' = opend \cup {<<expiry[t], alias[t]>>}
    /\ Goto(t, "L77")
    /\ UNCHANGED <<alias_id, handles, cut, clock, faults, ncalls, block,
                   alias, tmp, duration, expiry, now, it_used, visited,
                   expired, entry, log, failed, res, opened, alone, swept>>

(* --------------------- PlaysoundWin.cleanup --------------------------- *)

\* a filter that also takes the sessions expiring right now
IsExpiredOrNow(e, n) == e[1] <= n

\* line 81: the filter of the list comprehension
IsExpired(e, n) == e[1] < n

\* lines 73, 77: cls.cleanup() starts: now = time()
ReadNow(t) ==
    /\ pc[t] = "L77"
    /\ now' = [now EXCEPT ![t] = clock]
    /\ Goto(t, "L79")
    /\ UNCHANGED <<alias_id, opend, handles, cut, clock, faults, ncalls,
                   block, alias, tmp, duration, expiry, it_used, visited,
                   expired, entry, log, failed, res, opened, alone, swept>>

\* line 80: `for entry in cls.opend` creates the set iterator, which records
\* the size of the set
IterStart(t) ==
    /\ pc[t] = "L79"
    /\ it_used' = [it_used EXCEPT ![t] = Cardinality(opend)]
    /\ visited' = [visited EXCEPT ![t] = {}]
    /\ alone' = [alone EXCEPT ![t] = \A u \in Threads \ {t} : pc[u] = "idle"]
    /\ Goto(t, "L80")
    /\ UNCHANGED <<alias_id, opend, handles, cut, clock, faults, ncalls,
                   block, alias, tmp, duration, expiry, now, expired, entry,
                   log, failed, res, opened, swept>>

\* lines 79-82: one step of the set iterator.  It raises RuntimeError when
\* the set changed size since the iterator was created, yields an entry it
\* has not yielded yet (in the set's order, which the code does not fix),
\* or is exhausted; the comprehension keeps the entries with entry[0] < now.
IterNext(t) ==
    /\ pc[t] = "L80"
    /\ IF Cardinality(opend) # it_used[t]
       THEN /\ Raise(t, "RuntimeError")
            /\ UNCHANGED <<visited, expired, entry>>
       ELSE IF opend \ visited[t] = {}
       THEN /\ IF expired[t] = <<>>
               THEN /\ pc' = [pc EXCEPT ![t] = "done"]
                    /\ res' = [res EXCEPT ![t] = "ok"]
                    /\ UNCHANGED entry
               ELSE /\ Goto(t, "L85")
                    /\ entry' = [entry EXCEPT ![t] = Head(expired[t])]
                    /\ UNCHANGED res
            /\ UNCHANGED <<visited, expired>>
       ELSE \E e \in opend \ visited[t] :
            /\ visited' = [visited EXCEPT ![t] = @ \cup {e}]
            /\ expired' = [expired EXCEPT ![t] =
                             IF IsExpired(e, now[t]) THEN Append(@, e) ELSE @]
            /\ UNCHANGED <<pc, res, entry>>
    /\ UNCHANGED <<alias_id, opend, handles, cut, clock, faults, ncalls,
                   block, alias, tmp, duration, expiry, now, it_used, log,
                   failed, opened, alone, swept>>

\* line 85: mci_send_string('close {}', entry[1]); mciError is not caught
CloseExpired(t) ==
    /\ pc[t] = "L85"
    /\ \E error \in BOOLEAN :
         /\ mci_send_string(t, "close", entry[t][2], error)
         /\ IF error THEN Raise(t, "mciError")
                     ELSE Goto(t, "L86") /\ UNCHANGED res
    /\ swept' = [swept EXCEPT ![t] = @ \cup {entry[t]}]
    /\ UNCHANGED <<alias_id, opend, clock, ncalls, block, alias, tmp,
                   duration, expiry, now, it_used, visited, expired, entry,
                   opened, alone>>

\* line 86: cls.opend.discard(entry), then the next entry of expired or
\* the end of cleanup and of play
Discard(t) ==
    /\ pc[t] = "L86"
    /\ opend' = opend \ {entry[t]}
    /\ expired' = [expired EXCEPT ![t] = Tail(@)]
    /\ IF Tail(expired[t]) = <<>>
       THEN /\ pc' = [pc EXCEPT ![t] = "done"]
            /\ res' = [res EXCEPT ![t] = "ok"]
            /\ UNCHANGED entry
       ELSE /\ Goto(t, "L85")
            /\ entry' = [entry EXCEPT ![t] = Head(Tail(expired[t]))]
            /\ UNCHANGED res
    /\ UNCHANGED <<alias_id, handles, cut, clock, faults, ncalls, block,
                   alias, tmp, duration, expiry, now, it_used, visited, log,
                   failed, opened, alone, swept>>

\* control is back at the caller; the frame of the call is gone
Return(t) ==
    /\ pc[t] = "done"
    /\ Goto(t, "idle")
    /\ block' = [block EXCEPT ![t] = TRUE]
    /\ alias' = [alias EXCEPT ![t] = Unbound]
    /\ tmp' = [tmp EXCEPT ![t] = Unbound]
    /\ duration' = [duration EXCEPT ![t] = Unbound]
    /\ expiry' = [expiry EXCEPT ![t] = Unbound]
    /\ now' = [now EXCEPT ![t] = Unbound]
    /\ it_used' = [it_used EXCEPT ![t] = Unbound]
    /\ visited' = [visited EXCEPT ![t] = {}]
    /\ expired' = [expired EXCEPT ![t] = <<>>]
    /\ entry' = [entry EXCEPT ![t] = <<>>]
    /\ log' = [log EXCEPT ![t] = <<>>]
    /\ res' = [res EXCEPT ![t] = "none"]
    /\ opened' = [opened EXCEPT ![t] = FALSE]
    /\ alone' = [alone EXCEPT ![t] = FALSE]
    /\ failed' = [failed EXCEPT ![t] = <<>>]
    /\ swept' = [swept EXCEPT ![t] = {}]
    /\ UNCHANGED <<alias_id, opend, handles, cut, clock, faults, ncalls>>

\* time passes
Tick ==
    /\ clock < MaxTime
    /\ clock' = clock + 1
    /\ UNCHANGED <<alias_id, opend, handles, cut, faults, ncalls, pc>>
    /\ UNCHANGED tvars

(* ------------------------- _handlePathOSX ----------------------------- *)

\* Strings are sequences of one-character strings.  Non-ASCII characters
\* are represented by "é" (UTF-8 bytes C3 A9).
NonAscii == {"é"}

RECURSIVE Concat(_)
Concat(ss) == IF ss = <<>> THEN <<>> ELSE Head(ss) \o Concat(Tail(ss))

IsPrefix(p, s) == Len(p) <= Len(s) /\ SubSeq(s, 1, Len(p)) = p

\* str.find: the first index at which sub occurs in s, 0 when it does not
Find(sub, s) ==
    LET at == {i \in 1..(Len(s) - Len(sub) + 1) :
                 SubSeq(s, i, i + Len(sub) - 1) = sub}
    IN IF at = {} THEN 0 ELSE CHOOSE i \in at : \A j \in at : i <= j

SchemeSep == <<":", "/", "/">>

\* str.replace(' ', '%20')
ReplaceSpaces(s) ==
    Concat([i \in 1..Len(s) |->
              IF s[i] = " " THEN <<"%", "2", "0">> ELSE <<s[i]>>])

\* urllib.parse.quote of the UTF-8 bytes of a character, safe='/':
\* letters, digits and _.-~/ are kept, every other byte becomes %XX
QuoteChar(c) ==
    CASE c = " " -> <<"%", "2", "0">>
      [] c = "%" -> <<"%", "2", "5">>
      [] c = ":" -> <<"%", "3", "A">>
      [] c = "é" -> <<"%", "C", "3", "%", "A", "9">>
      [] OTHER -> <<c>>

Quote(s) == Concat([i \in 1..Len(s) |-> QuoteChar(s[i])])

\* lines 89-110 (Python 3 strings)
_handlePathOSX(sound, cwd) ==
    LET s1 == IF Find(SchemeSep, sound) = 0
              THEN <<"f", "i", "l", "e">> \o SchemeSep \o
                   (IF IsPrefix(<<"/">>, sound) THEN sound
                    ELSE cwd \o <<"/">> \o sound)
              ELSE sound
        k == Find(SchemeSep, s1)
    IN IF \A i \in 1..Len(s1) : s1[i] \notin NonAscii
       THEN ReplaceSpaces(s1)
       ELSE SubSeq(s1, 1, k - 1) \o SchemeSep \o
            ReplaceSpaces(Quote(SubSeq(s1, k + 3, Len(s1))))

(* --------------------------- _playsoundOSX ---------------------------- *)

\* range(5) at line 143
LoadAttempts == 5

\* the inputs of a call
MaxLen == 2
Alphabet == {"a", "/", " ", "%", "é"}
\* targets that already are URIs ('://' in sound)
Uris == {<<"h", ":", "/", "/", "a", " ">>, <<"h", ":", "/", "/", "é", "%">>}
Sounds == UNION {[1..n -> Alphabet] : n \in 1..MaxLen} \cup Uris
Cwds == {<<"/", "d">>, <<"/", "é">>}

ORaise(kind) == opc' = "done" /\ ores' = kind

\* lines 125-136: the imports of AppKit (with the fallback to the system
\* copy), time and Foundation; an ImportError of the fallback leaves the call
OImport ==
    /\ opc = "L125"
    /\ \E ok \in BOOLEAN :
         IF ok THEN opc' = "L138" /\ UNCHANGED ores
               ELSE ORaise("ImportError")
    /\ UNCHANGED <<osound, ocwd, oblock, oloads, oplaying, oslept>>

\* line 138: sound = _handlePathOSX(sound)
ONormalize ==
    /\ opc = "L138"
    /\ osound' = _handlePathOSX(osound, ocwd)
    /\ opc' = "L139"
    /\ UNCHANGED <<ocwd, oblock, oloads, oplaying, oslept, ores>>

\* lines 139-141: NSURL.URLWithString_ gives a URL or nil
OMakeURL ==
    /\ opc = "L139"
    /\ \E url \in BOOLEAN :
         IF url THEN opc' = "L144" /\ UNCHANGED ores
                ELSE ORaise("InvalidTarget")
    /\ UNCHANGED <<osound, ocwd, oblock, oloads, oplaying, oslept>>

\* a loop that gives up one pass early
LoopHasNextShort(i) == i < LoadAttempts - 1

\* line 143: the for loop goes on while range(5) has a value left
LoopHasNext(i) == i < LoadAttempts

\* lines 143-152: one pass of the loop body: load, break on success,
\* else the next pass, or the loop's else clause when range(5) is used up
OLoad ==
    /\ opc = "L144"
    /\ \E nssound \in BOOLEAN :
         /\ oloads' = Append(oloads, nssound)
         /\ IF nssound THEN opc' = "L153" /\ UNCHANGED ores
            ELSE IF LoopHasNext(Len(oloads) + 1)
            THEN opc' = "L144" /\ UNCHANGED ores
            ELSE ORaise("LoadFailed")
    /\ UNCHANGED <<osound, ocwd, oblock, oplaying, oslept>>

\* lines 153-155: nssound.play()
OPlay ==
    /\ opc = "L153"
    /\ oplaying' = TRUE
    /\ IF oblock THEN opc' = "L156" /\ UNCHANGED ores
                 ELSE opc' = "done" /\ ores' = "ok"
    /\ UNCHANGED <<osound, ocwd, oblock, oloads, oslept>>

\* line 156: sleep(nssound.duration())
OSleep ==
    /\ opc = "L156"
    /\ \E d \in 0..MaxDur : oslept' = d
    /\ opc' = "done"
    /\ ores' = "ok"
    /\ UNCHANGED <<osound, ocwd, oblock, oloads, oplaying>>

\* the native-object backend is not running
OOff ==
    /\ opc = "off"
    /\ osound = <<>>
    /\ ocwd = <<>>
    /\ oblock = TRUE
    /\ oloads = <<>>
    /\ oplaying = FALSE
    /\ oslept = 0
    /\ ores = "none"

\* _playsoundOSX(sound, block) has just been called
OSXInit ==
    /\ opc = "L125"
    /\ osound \in Sounds
    /\ ocwd \in Cwds
    /\ oblock \in BOOLEAN
    /\ oloads = <<>>
    /\ oplaying = FALSE
    /\ oslept = 0
    /\ ores = "none"

(* --------------------------- _playsoundNix ---------------------------- *)

Http == <<"h", "t", "t", "p", ":", "/", "/">>
Https == <<"h", "t", "t", "p", "s", ":", "/", "/">>
FilePrefix == <<"f", "i", "l", "e", ":", "/", "/">>

\* os.path.abspath of a path without '.' and '..' components
abspath(path, cwd) ==
    IF IsPrefix(<<"/">>, path) THEN path ELSE cwd \o <<"/">> \o path

\* urllib.request.pathname2url on POSIX: quote(pathname)
pathname2url(path) == Quote(path)

\* the targets of a call: two URLs and four local paths
NixSounds == {Http \o <<"a">>, Https \o <<"a", " ">>, <<"a", " ">>,
              <<"/", "é">>, <<"h", "t", "t", "p", ":", "a">>, <<"%">>}
\* the values of Gst.StateChangeReturn
StateChangeReturn == {"FAILURE", "SUCCESS", "ASYNC", "NO_PREROLL"}

NRaise(kind) == npc' = "done" /\ nres' = kind

\* lines 174-176: import gi, require Gst 1.0, import Gst
NImport ==
    /\ npc = "L174"
    /\ IF ngi THEN npc' = "L179" /\ nres' = nres
       ELSE NRaise("ImportError")
    /\ UNCHANGED <<nsound, ncwd, nexists, ngi, nblock, nplaybin, nuri,
                   nset_result, nstate, npolled>>

\* lines 179-181: Gst.init and Gst.ElementFactory.make('playbin', ...)
NMake ==
    /\ npc = "L179"
    /\ nplaybin' = TRUE
    /\ npc' = "L182"
    /\ UNCHANGED <<nsound, ncwd, nexists, ngi, nblock, nuri, nset_result,
                   nstate, npolled, nres>>

\* lines 182-188: the uri of the pipeline; a local path must exist
NSetUri ==
    /\ npc = "L182"
    /\ IF IsPrefix(Http, nsound) \/ IsPrefix(Https, nsound)
       THEN nuri' = nsound /\ npc' = "L190" /\ nres' = nres
       ELSE IF ~nexists
            THEN NRaise("FileNotFound") /\ nuri' = nuri
            ELSE /\ nuri' = FilePrefix \o pathname2url(abspath(nsound, ncwd))
                 /\ npc' = "L190"
                 /\ nres' = nres
    /\ UNCHANGED <<nsound, ncwd, nexists, ngi, nblock, nplaybin,
                   nset_result, nstate, npolled>>

\* lines 190-193 and 198: set_state(PLAYING); anything but ASYNC is an
\* error; a non-blocking call returns with the pipeline left playing
NSetState(r) ==
    /\ npc = "L190"
    /\ nset_result' = r
    /\ nstate' = "PLAYING"
    /\ IF r # "ASYNC" THEN NRaise("SetStateFailed")
       ELSE IF nblock THEN npc' = "L201" /\ nres' = nres
       ELSE npc' = "done" /\ nres' = "ok"
    /\ UNCHANGED <<nsound, ncwd, nexists, ngi, nblock, nplaybin, nuri,
                   npolled>>

\* a try statement without its finally clause: an exception of the wait
\* leaves the call at once
NPollNoFinally(outcome) ==
    /\ npc = "L201"
    /\ npolled' = outcome
    /\ IF outcome = "EOS" THEN npc' = "L203" /\ nres' = nres
       ELSE NRaise("Interrupted")
    /\ UNCHANGED <<nsound, ncwd, nexists, ngi, nblock, nplaybin, nuri,
                   nset_result, nstate>>

\* lines 200-202: bus.poll(EOS, CLOCK_TIME_NONE) inside try; it returns at
\* the end of the stream or is left by an exception (KeyboardInterrupt);
\* either way control passes to the finally clause
NPoll(outcome) ==
    /\ npc = "L201"
    /\ npolled' = outcome
    /\ npc' = "L203"
    /\ UNCHANGED <<nsound, ncwd, nexists, ngi, nblock, nplaybin, nuri,
                   nset_result, nstate, nres>>

\* line 203: finally: playbin.set_state(NULL); a pending exception goes on
NFinally ==
    /\ npc = "L203"
    /\ nstate' = "NULL"
    /\ npc' = "done"
    /\ nres' = IF npolled = "EOS" THEN "ok" ELSE "Interrupted"
    /\ UNCHANGED <<nsound, ncwd, nexists, ngi, nblock, nplaybin, nuri,
                   nset_result, npolled>>

NOff ==
    /\ npc = "off"
    /\ nsound = <<>>
    /\ ncwd = <<>>
    /\ nexists = FALSE
    /\ ngi = FALSE
    /\ nblock = TRUE
    /\ nplaybin = FALSE
    /\ nuri = <<>>
    /\ nset_result = "none"
    /\ nstate = "none"
    /\ npolled = "none"
    /\ nres = "none"

\* _playsoundNix(sound, block) has just been called
NixInit ==
    /\ npc = "L174"
    /\ nsound \in NixSounds
    /\ ncwd \in Cwds
    /\ nexists \in BOOLEAN
    /\ ngi \in BOOLEAN
    /\ nblock \in BOOLEAN
    /\ nplaybin = FALSE
    /\ nuri = <<>>
    /\ nset_result = "none"
    /\ nstate = "none"
    /\ npolled = "none"
    /\ nres = "none"

(* ------------- the dispatcher and _playsoundAnotherPython ------------- *)

MaxProcs == 4

Systems == {"Windows", "Darwin", "Linux"}

\* the Python major versions the importer may run under; the worker thread
\* of _playsoundAnotherPython is written for Python 3 (super().join)
TopPy(sys) == IF sys = "Darwin" THEN {2, 3} ELSE {3}

\* what a process is bound to before lines 246-273 ran
NotBound == "none"

\* lines 246-273 without the test of __name__
DispatchNoMainGuard(sys, py, main, loadable) ==
    IF sys = "Windows" THEN "Win"
    ELSE IF sys = "Darwin"
         THEN IF py > 2 /\ ~loadable THEN "Delegate" ELSE "OSX"
    ELSE IF ~loadable THEN "Delegate" ELSE "Nix"

\* lines 246-273 without the test of sys.version_info
DispatchNoVersionTest(sys, py, main, loadable) ==
    IF sys = "Windows" THEN "Win"
    ELSE IF sys = "Darwin"
         THEN IF ~loadable THEN "Delegate" ELSE "OSX"
    ELSE IF ~main /\ ~loadable THEN "Delegate" ELSE "Nix"

\* lines 246-273: what the name playsound is bound to when the module's
\* body has run; loadable is whether the import of the native binding
\* (AppKit on Darwin, gi/Gst elsewhere) succeeds, main whether __name__ is
\* '__main__'
Dispatch(sys, py, main, loadable) ==
    IF sys = "Windows" THEN "Win"
    ELSE IF sys = "Darwin"
         THEN IF py > 2 /\ ~loadable THEN "Delegate" ELSE "OSX"
    ELSE IF ~main /\ ~loadable THEN "Delegate" ELSE "Nix"

\* lines 256-257 and 271-272: the major version of otherPython
OtherPython(sys) == IF sys = "Darwin" THEN 2 ELSE 3

CallsOf(p) == {c \in 1..Len(calls) : calls[c].proc = p}
ChildrenOf(c) == {q \in 1..Len(procs) : procs[q].parent = c}
\* a process run as a script makes the one call of line 280
CallLimit(p) == IF procs[p].main THEN 1 ELSE MaxCalls

SetCall(c, f) == calls' = [calls EXCEPT ![c] = f]

\* lines 246-273: the body of the module runs once in each process
Import(p) ==
    /\ procs[p].bound = NotBound
    /\ procs' = [procs EXCEPT ![p].bound =
                   Dispatch(system, procs[p].py, procs[p].main,
                            procs[p].loadable)]
    /\ UNCHANGED <<system, calls>>

\* playsound(sound, block) is called (line 280 in a process run as a
\* script, always blocking); exists is what os.path.exists will answer
CallPlaysound(p, b, e) ==
    /\ procs[p].bound # NotBound
    /\ procs[p].code = Unbound
    /\ \A c \in CallsOf(p) : calls[c].pc = "done"
    /\ Cardinality(CallsOf(p)) < CallLimit(p)
    /\ procs[p].main => b
    /\ procs[p].parent # 0 => e
    /\ calls' = Append(calls,
                       [proc |-> p, block |-> b, exists |-> e,
                        pc |-> IF procs[p].bound = "Delegate"
                               THEN "L235" ELSE "backend",
                        thread |-> "none", exc |-> "none", child |-> 0,
                        res |-> "none"])
    /\ UNCHANGED <<system, procs>>

\* an in-process backend runs the call to its end: it fails at its import
\* when the binding is missing, otherwise it succeeds or fails
RunBackend(c, ok) ==
    /\ calls[c].pc = "backend"
    /\ LET p == procs[calls[c].proc]
       IN SetCall(c, [calls[c] EXCEPT
                        !.pc = "done",
                        !.res = IF p.bound # "Win" /\ ~p.loadable
                                THEN "ImportError"
                                ELSE IF ok /\ calls[c].exists THEN "ok"
                                ELSE "PlaysoundException"])
    /\ UNCHANGED <<system, procs>>

\* line 235 without its test
DExistsNoCheck(c) ==
    /\ calls[c].pc = "L235"
    /\ SetCall(c, [calls[c] EXCEPT !.pc = "L238"])
    /\ UNCHANGED <<system, procs>>

\* lines 235-236: if not exists(abspath(sound)): raise PlaysoundException
DExists(c) ==
    /\ calls[c].pc = "L235"
    /\ IF calls[c].exists
       THEN SetCall(c, [calls[c] EXCEPT !.pc = "L238"])
       ELSE SetCall(c, [calls[c] EXCEPT !.pc = "done",
                                        !.res = "FileNotFound"])
    /\ UNCHANGED <<system, procs>>

\* lines 238-243: the worker thread is created and started; a non-blocking
\* call returns, a blocking one goes on to join
DStart(c) ==
    /\ calls[c].pc = "L238"
    /\ IF calls[c].block
       THEN SetCall(c, [calls[c] EXCEPT !.thread = "started",
                                        !.pc = "L243"])
       ELSE SetCall(c, [calls[c] EXCEPT !.thread = "started",
                                        !.pc = "done", !.res = "ok"])
    /\ UNCHANGED <<system, procs>>

\* lines 239-240, in the worker thread: check_call starts otherPython on
\* this file, which runs it as __main__
DSpawn(c, l) ==
    /\ calls[c].thread = "started"
    /\ Len(procs) < MaxProcs
    /\ procs' = Append(procs,
                       [py |-> OtherPython(system), main |-> TRUE,
                        loadable |-> l, parent |-> c, bound |-> NotBound,
                        code |-> Unbound])
    /\ SetCall(c, [calls[c] EXCEPT !.thread = "waiting",
                                   !.child = Len(procs) + 1])
    /\ UNCHANGED system

\* lines 277-280: a process run as a script ends when its call has ended,
\* with status 1 when the call raised
Exit(p) ==
    /\ procs[p].main
    /\ procs[p].code = Unbound
    /\ \E c \in CallsOf(p) :
          /\ calls[c].pc = "done"
          /\ procs' = [procs EXCEPT ![p].code =
                         IF calls[c].res = "ok" THEN 0 ELSE 1]
    /\ UNCHANGED <<system, calls>>

\* lines 220-226 and 239: check_call returns when the child has exited and
\* raises CalledProcessError on a non-zero status; run() keeps it in exc
DWait(c) ==
    /\ calls[c].thread = "waiting"
    /\ procs[calls[c].child].code # Unbound
    /\ SetCall(c, [calls[c] EXCEPT
                     !.thread = "finished",
                     !.exc = IF procs[calls[c].child].code # 0
                             THEN "CalledProcessError" ELSE "none"])
    /\ UNCHANGED <<system, procs>>

\* lines 228-232 and 243: join waits for the thread and raises its exc
DJoin(c) ==
    /\ calls[c].pc = "L243"
    /\ calls[c].thread = "finished"
    /\ SetCall(c, [calls[c] EXCEPT
                     !.pc = "done",
                     !.res = IF calls[c].exc # "none" THEN calls[c].exc
                             ELSE "ok"])
    /\ UNCHANGED <<system, procs>>

DOff(sys) ==
    /\ system = sys
    /\ procs = <<>>
    /\ calls = <<>>

\* an interpreter is about to run the module, imported or as a script
ProcInit ==
    /\ system \in Systems
    /\ \E v \in TopPy(system), m \in BOOLEAN, l \in BOOLEAN :
          procs = <<[py |-> v, main |-> m, loadable |-> l, parent |-> 0,
                     bound |-> NotBound, code |-> Unbound]>>
    /\ calls = <<>>

(* ------------------ _handlePathOSX on local paths --------------------- *)

MaxPathLen == 4

\* the local paths given: no '://' occurs in them
Paths == UNION {[1..n -> Alphabet] : n \in 1..MaxPathLen}

HexDigits == {"0", "1", "2", "3", "4", "5", "6", "7", "8", "9",
              "a", "b", "c", "d", "e", "f", "A", "B", "C", "D", "E", "F"}

\* the character of a single escaped byte; a byte that is not a character
\* by itself decodes to the replacement character
ByteChar(h1, h2) ==
    CASE <<h1, h2>> = <<"2", "0">> -> " "
      [] <<h1, h2>> = <<"2", "5">> -> "%"
      [] <<h1, h2>> = <<"3", "A">> -> ":"
      [] OTHER -> "?"

\* percent-decoding (urllib.parse.unquote): '%' and two hex digits stand
\* for a byte, any other '%' is kept; the bytes are read as UTF-8
RECURSIVE Unquote(_)
Unquote(s) ==
    IF s = <<>> THEN <<>>
    ELSE IF s[1] = "%" /\ Len(s) >= 3 /\ s[2] \in HexDigits
            /\ s[3] \in HexDigits
         THEN IF IsPrefix(<<"%", "C", "3", "%", "A", "9">>, s)
              THEN <<"é">> \o Unquote(SubSeq(s, 7, Len(s)))
              ELSE <<ByteChar(s[2], s[3])>> \o Unquote(SubSeq(s, 4, Len(s)))
    ELSE <<s[1]>> \o Unquote(Tail(s))

\* lines 89-110 applied to the path
HNormalize ==
    /\ hpc = "start"
    /\ hout' = _handlePathOSX(hpath, hcwd)
    /\ hpc' = "normalized"
    /\ UNCHANGED <<hpath, hcwd, hdec>>

\* the URL is percent-decoded by its reader (NSURL.URLWithString_, line 139)
HDecode ==
    /\ hpc = "normalized"
    /\ hdec' = Unquote(hout)
    /\ hpc' = "decoded"
    /\ UNCHANGED <<hpath, hcwd, hout>>

HOff ==
    /\ hpc = "off"
    /\ hpath = <<>>
    /\ hcwd = <<>>
    /\ hout = <<>>
    /\ hdec = <<>>

PathInit ==
    /\ hpc = "start"
    /\ hpath \in Paths
    /\ hcwd \in Cwds
    /\ hout = <<>>
    /\ hdec = <<>>

Init == WinInit /\ OOff /\ NOff /\ DOff("Windows") /\ HOff

Next ==
    \/ \E t \in Threads, b \in BOOLEAN : Call(t, b) /\ UNCHANGED restWin
    \/ \E t \in Threads : ReadAlias(t) /\ UNCHANGED restWin
    \/ \E t \in Threads : IncLoad(t) /\ UNCHANGED restWin
    \/ \E t \in Threads : IncStore(t) /\ UNCHANGED restWin
    \/ \E t \in Threads : Open(t) /\ UNCHANGED restWin
    \/ \E t \in Threads : PlayWait(t) /\ UNCHANGED restWin
    \/ \E t \in Threads : CloseOwn(t) /\ UNCHANGED restWin
    \/ \E t \in Threads : SetTimeFormat(t) /\ UNCHANGED restWin
    \/ \E t \in Threads : StatusLength(t) /\ UNCHANGED restWin
    \/ \E t \in Threads : Play(t) /\ UNCHANGED restWin
    \/ \E t \in Threads : ComputeExpiry(t) /\ UNCHANGED restWin
    \/ \E t \in Threads : Track(t) /\ UNCHANGED restWin
    \/ \E t \in Threads : ReadNow(t) /\ UNCHANGED restWin
    \/ \E t \in Threads : IterStart(t) /\ UNCHANGED restWin
    \/ \E t \in Threads : IterNext(t) /\ UNCHANGED restWin
    \/ \E t \in Threads : CloseExpired(t) /\ UNCHANGED restWin
    \/ \E t \in Threads : Discard(t) /\ UNCHANGED restWin
    \/ \E t \in Threads : Return(t) /\ UNCHANGED restWin
    \/ Tick /\ UNCHANGED restWin

Spec == Init /\ [][Next]_vars

InitOSX == WinInit /\ OSXInit /\ NOff /\ DOff("Darwin") /\ HOff

NextOSX ==
    \/ OImport /\ UNCHANGED restOSX
    \/ ONormalize /\ UNCHANGED restOSX
    \/ OMakeURL /\ UNCHANGED restOSX
    \/ OLoad /\ UNCHANGED restOSX
    \/ OPlay /\ UNCHANGED restOSX
    \/ OSleep /\ UNCHANGED restOSX

SpecOSX == InitOSX /\ [][NextOSX]_vars

InitNix == WinInit /\ OOff /\ NixInit /\ DOff("Linux") /\ HOff

NextNix ==
    \/ NImport /\ UNCHANGED restNix
    \/ NMake /\ UNCHANGED restNix
    \/ NSetUri /\ UNCHANGED restNix
    \/ (\E r \in StateChangeReturn : NSetState(r)) /\ UNCHANGED restNix
    \/ (\E o \in {"EOS", "interrupt"} : NPoll(o)) /\ UNCHANGED restNix
    \/ NFinally /\ UNCHANGED restNix

SpecNix == InitNix /\ [][NextNix]_vars

InitProc == WinInit /\ OOff /\ NOff /\ ProcInit /\ HOff

NextProc ==
    \/ \E p \in 1..Len(procs) : Import(p) /\ UNCHANGED restProc
    \/ \E p \in 1..Len(procs), b \in BOOLEAN, e \in BOOLEAN :
          CallPlaysound(p, b, e) /\ UNCHANGED restProc
    \/ \E c \in 1..Len(calls), ok \in BOOLEAN :
          RunBackend(c, ok) /\ UNCHANGED restProc
    \/ \E c \in 1..Len(calls) : DExists(c) /\ UNCHANGED restProc
    \/ \E c \in 1..Len(calls) : DStart(c) /\ UNCHANGED restProc
    \/ \E c \in 1..Len(calls), l \in BOOLEAN :
          DSpawn(c, l) /\ UNCHANGED restProc
    \/ \E p \in 1..Len(procs) : Exit(p) /\ UNCHANGED restProc
    \/ \E c \in 1..Len(calls) : DWait(c) /\ UNCHANGED restProc
    \/ \E c \in 1..Len(calls) : DJoin(c) /\ UNCHANGED restProc

SpecProc == InitProc /\ [][NextProc]_vars

InitPath == WinInit /\ OOff /\ NOff /\ DOff("Darwin") /\ PathInit

NextPath ==
    \/ HNormalize /\ UNCHANGED restPath
    \/ HDecode /\ UNCHANGED restPath

SpecPath == InitPath /\ [][NextPath]_vars

(* ============================ the claims ============================== *)

Running(t) == pc[t] \notin {"idle", "done"}
Ended(t) == pc[t] = "done"
\* the call of t entered cleanup (line 77 ran)
SweepBegan(t) == now[t] # Unbound
\* the entries the sweep of t found expired
Selected(t) == {e \in visited[t] : e[1] < now[t]}
\* the commands sent by the body of play (lines 59-69), cleanup's left out
RECURSIVE PlayCommands(_)
PlayCommands(l) ==
    IF l = <<>> THEN <<>>
    ELSE IF Head(l)[3] = "play"
         THEN <<<<Head(l)[1], Head(l)[2]>>>> \o PlayCommands(Tail(l))
         ELSE PlayCommands(Tail(l))

\* C1: two play calls that run concurrently on different threads hold
\* different aliases, whatever the interleaving of their steps.
C1_ConcurrentAliasesDiffer ==
    \A t, u \in Threads :
        (t # u /\ alias[t] # Unbound /\ alias[u] # Unbound)
            => alias[t] # alias[u]

\* C2: a cleanup sweep that began after every expiry of the tracked sessions
\* had passed, and that no other call ran beside, has left the tracking
\* set empty when it ends.
C2_SweepAfterAllExpiriesEmpties ==
    \A t \in Threads :
        (Ended(t) /\ SweepBegan(t) /\ alone[t]
           /\ \A e \in visited[t] : e[1] < now[t])
            => opend = {}

\* C3: when mciSendStringW answers the close command of the sweep with a
\* non-zero code, the play call still ends without an error.
C3_CloseFailureNotPropagated ==
    \A t \in Threads :
        (Ended(t) /\ SweepBegan(t) /\ failed[t] # <<>>
           /\ failed[t][1] = "close")
            => res[t] = "ok"

\* C4: when the sweeps of two calls selected the same expired session and
\* both calls have ended, neither ended with an error and the session is
\* not in the tracking set.
C4_DoubleCloseTolerated ==
    \A t, u \in Threads :
        (t # u /\ Ended(t) /\ Ended(u)
           /\ res[t] # "RuntimeError" /\ res[u] # "RuntimeError"
           /\ Selected(t) \cap Selected(u) # {})
            => /\ res[t] = "ok"
               /\ res[u] = "ok"
               /\ Selected(t) \cap Selected(u) \cap opend = {}

\* C5: every device opened by a non-blocking call and not yet closed has a
\* session of its alias in the tracking set.
C5_OpenNonBlockingHandleTracked ==
    \A h \in handles :
        h.nb => \E e \in opend : e[2] = h.alias

\* C6: a blocking play call that ended in success has sent, itself, exactly
\* open, play wait and close, in this order and all for its own alias, and
\* the device it opened is closed.
C6_BlockingOpenPlayWaitClose ==
    \A t \in Threads :
        (Ended(t) /\ block[t] /\ res[t] = "ok")
            => /\ PlayCommands(log[t]) =
                    <<<<"open", alias[t]>>, <<"play wait", alias[t]>>,
                      <<"close", alias[t]>>>>
               /\ ~ \E h \in handles : h.by = t /\ h.alias = alias[t]

C6_Witness ==
    \E t \in Threads :
        /\ Ended(t) /\ block[t] /\ res[t] = "ok"
        /\ Len(log[t]) = 3

\* C7: a blocking call never reaches the lines that track a session, and
\* when its open succeeded the device it opened is closed once the call has
\* ended, in success or in an error.
C7_BlockingHandleClosedAtEnd ==
    \A t \in Threads :
        /\ (block[t] /\ pc[t] # "idle")
             => pc[t] \notin {"L67", "L68", "L69", "L70", "L71"}
        /\ (Ended(t) /\ block[t] /\ opened[t])
             => ~ \E h \in handles : h.by = t /\ h.alias = alias[t]

\* C8: every play call that has ended, in success or in an error, has run
\* the cleanup sweep.
C8_EveryCallSweeps ==
    \A t \in Threads : Ended(t) => SweepBegan(t)

\* C9: a sweep run at time now sends close only for tracked sessions with
\* expiry < now and discards only sessions it sent close for; when all its
\* closes succeeded it has sent close for every tracked session with
\* expiry < now and none of them is tracked any more; sessions with
\* expiry >= now stay tracked (no other call running beside the sweep).
C9_SweepClosesExactlyExpired ==
    \A t \in Threads :
        /\ swept[t] \subseteq {e \in visited[t] : e[1] < now[t]}
        /\ pc[t] = "L86" => entry[t] \in swept[t]
        /\ (Ended(t) /\ res[t] = "ok")
             => /\ swept[t] = {e \in visited[t] : e[1] < now[t]}
                /\ swept[t] \cap opend = {}
        /\ (Ended(t) /\ res[t] = "ok" /\ alone[t])
             => opend = {e \in visited[t] : e[1] >= now[t]}

C9_Witness ==
    \E t \in Threads :
        /\ Ended(t) /\ res[t] = "ok" /\ alone[t]
        /\ swept[t] # {}
        /\ \E e \in opend : e[1] = now[t]

\* C10: the sound is loaded at most 5 times and not again after a success;
\* when loads 1 to 4 fail and load 5 succeeds the call plays and ends in
\* success; the call ends with the load-failed error exactly when 5 loads
\* failed, and then nothing was played.
C10_LoadRetries ==
    /\ Len(oloads) <= 5
    /\ \A i \in 1..(Len(oloads) - 1) : ~oloads[i]
    /\ (opc = "done" /\ Len(oloads) = 5 /\ oloads[5])
         => (ores = "ok" /\ oplaying)
    /\ (ores = "LoadFailed")
         <=> (opc = "done" /\ Len(oloads) = 5 /\ ~oloads[5])
    /\ ores = "LoadFailed" => ~oplaying
    /\ oplaying => (oloads # <<>> /\ oloads[Len(oloads)])

C10_Witness ==
    /\ opc = "done"
    /\ Len(oloads) = 5
    /\ oloads[5]
    /\ ores = "ok"
    /\ oplaying

\* C11: a call that failed with the file-not-found error has not
\* constructed the playbin element.
C11_FileNotFoundBeforePlaybin ==
    nres = "FileNotFound" => ~nplaybin

\* the calls that entered _playsoundAnotherPython
Delegated(c) == procs[calls[c].proc].bound = "Delegate"
\* the results that are a PlaysoundException
LibraryFailures == {"PlaysoundException", "FileNotFound"}

\* C12: a delegated call whose target does not exist, once past the check of
\* existence, has ended with the file-not-found error, has not started a
\* worker thread and has no child process.
C12_MissingTargetSpawnsNothing ==
    \A c \in 1..Len(calls) :
        (Delegated(c) /\ ~calls[c].exists /\ calls[c].pc # "L235")
            => /\ calls[c].pc = "done"
               /\ calls[c].res = "FileNotFound"
               /\ calls[c].thread = "none"
               /\ calls[c].child = 0
               /\ ChildrenOf(c) = {}

C12_Witness ==
    \E c, d \in 1..Len(calls) :
        /\ Delegated(c) /\ ~calls[c].exists /\ calls[c].block
        /\ calls[c].res = "FileNotFound"
        /\ Delegated(d) /\ ~calls[d].exists /\ ~calls[d].block
        /\ calls[d].res = "FileNotFound"

\* C13: a delegated blocking call of an existing target ends only after its
\* child has exited, with success when the child exited zero and with a
\* failure of the library's type when it exited non-zero; a delegated
\* non-blocking call of an existing target ends with success.
C13_DelegatedFailureIsLibraryError ==
    \A c \in 1..Len(calls) :
        (Delegated(c) /\ calls[c].exists /\ calls[c].pc = "done")
            => IF calls[c].block
               THEN /\ calls[c].child # 0
                    /\ procs[calls[c].child].code # Unbound
                    /\ procs[calls[c].child].code = 0
                          => calls[c].res = "ok"
                    /\ procs[calls[c].child].code # 0
                          => calls[c].res \in LibraryFailures
               ELSE calls[c].res = "ok"

\* the decision table over host OS and loadability of the binding
Table(sys, loadable) ==
    IF sys = "Windows" THEN "Win"
    ELSE IF loadable THEN (IF sys = "Darwin" THEN "OSX" ELSE "Nix")
    ELSE "Delegate"

\* C14 (as stated): every process that ran the module is bound as the
\* decision table over host OS and loadability says.
C14_BindingFollowsTable ==
    \A p \in 1..Len(procs) :
        procs[p].bound # NotBound
            => procs[p].bound = Table(system, procs[p].loadable)

\* the decision table with the interpreter version and the way the module
\* is run taken into account
GuardedTable(sys, py, main, loadable) ==
    CASE sys = "Windows" -> "Win"
      [] sys = "Darwin" /\ (loadable \/ py <= 2) -> "OSX"
      [] sys = "Darwin" /\ ~loadable /\ py > 2 -> "Delegate"
      [] sys \notin {"Windows", "Darwin"} /\ (loadable \/ main) -> "Nix"
      [] sys \notin {"Windows", "Darwin"} /\ ~loadable /\ ~main
           -> "Delegate"

\* C14 (amended): every process that ran the module is bound as the table
\* says, where the fallback is bound only under Python 3 on the
\* native-object OS and only when the module is not run as the main script
\* on any other OS; no step changes a binding once made.
C14_BindingFollowsGuardedTable ==
    /\ [](\A p \in 1..Len(procs) :
            procs[p].bound # NotBound
                => procs[p].bound =
                     GuardedTable(system, procs[p].py, procs[p].main,
                                  procs[p].loadable))
    /\ [][\A p \in 1..Len(procs) :
            procs[p].bound # NotBound
                => procs'[p].bound = procs[p].bound]_vars

C14_Witness ==
    \E p \in 1..Len(procs) :
        /\ system = "Darwin"
        /\ procs[p].py = 2
        /\ ~procs[p].loadable
        /\ procs[p].bound = "OSX"
        /\ \E c \in CallsOf(p) : calls[c].pc = "done"

\* C15: a blocking call whose set_state(PLAYING) returned ASYNC has asked
\* the pipeline to take the NULL state when it ends, whether the wait ended
\* at the end of the stream or by an exception.
C15_BlockingPipelineStopped ==
    (npc = "done" /\ nblock /\ nset_result = "ASYNC")
        => /\ nstate = "NULL"
           /\ nres = (IF npolled = "EOS" THEN "ok" ELSE "Interrupted")

C15_Witness ==
    /\ npc = "done"
    /\ nblock
    /\ nset_result = "ASYNC"
    /\ npolled = "interrupt"
    /\ nres = "Interrupted"
    /\ nstate = "NULL"

\* the path contains a space or a non-ASCII character
NeedsEncoding(path) ==
    \E i \in 1..Len(path) : path[i] = " " \/ path[i] \in NonAscii
IsAscii(s) == \A i \in 1..Len(s) : s[i] \notin NonAscii
\* a '%' followed by two hex digits occurs in s
HasEscape(s) ==
    \E i \in 1..(Len(s) - 2) :
        s[i] = "%" /\ s[i + 1] \in HexDigits /\ s[i + 2] \in HexDigits

\* C16: for a local path with a space or a non-ASCII character the output
\* of _handlePathOSX is ASCII only and, percent-decoded, is 'file://'
\* followed by the path resolved against the working directory.
C16_NormalizedPathRoundTrips ==
    NeedsEncoding(hpath)
        => /\ hpc \in {"normalized", "decoded"} => IsAscii(hout)
           /\ hpc = "decoded"
                 => hdec = FilePrefix \o abspath(hpath, hcwd)

\* the round trip fails exactly for the all-ASCII resolved paths in which
\* a '%' is followed by two hex digits
C16_RoundTripUnlessAsciiEscape ==
    (NeedsEncoding(hpath) /\ hpc = "decoded")
        => LET full == FilePrefix \o abspath(hpath, hcwd)
           IN (hdec = full) <=> ~(IsAscii(full) /\ HasEscape(full))

\* C17: when the close command fails for an expired session during a sweep,
\* that session is dropped from the tracking set and the call ends normally
\* with every other session it selected removed as well.
C17_FailedCloseDropsSession ==
    \A t \in Threads :
        (Ended(t) /\ SweepBegan(t) /\ failed[t] # <<>>
           /\ failed[t][1] = "close")
            => /\ entry[t] \notin opend
               /\ res[t] = "ok"
               /\ Selected(t) \cap opend = {}

\* C18: no play call ends with the iteration error of the tracking set, and
\* the session a non-blocking call inserted stays in the tracking set for as
\* long as its device is open.
C18_SweepSurvivesConcurrentInsert ==
    /\ \A t \in Threads : res[t] # "RuntimeError"
    /\ \A u \in Threads :
           (~block[u] /\ pc[u] \in {"L77", "L79", "L80"} /\ res[u] = "none"
              /\ \E h \in handles : h.alias = alias[u] /\ h.by = u)
               => <<expiry[u], alias[u]>> \in opend

\* C19: every child process runs the module as the main script under the
\* interpreter the fallback names, is bound to an in-process backend
\* (Native-Object on Darwin, Streaming-Pipeline elsewhere), never spawns a
\* process itself, and is the child of a call of the first process; a call
\* has at most one child.
C19_DelegationNeverRecurses ==
    /\ \A q \in 1..Len(procs) :
          procs[q].parent # 0
              => /\ procs[q].main
                 /\ procs[q].py = OtherPython(system)
                 /\ procs[q].bound \in
                      {NotBound, IF system = "Darwin" THEN "OSX" ELSE "Nix"}
                 /\ \A c \in CallsOf(q) :
                        calls[c].thread = "none" /\ ChildrenOf(c) = {}
                 /\ procs[calls[procs[q].parent].proc].parent = 0
    /\ \A c \in 1..Len(calls) : Cardinality(ChildrenOf(c)) <= 1

C19_Witness ==
    \E q \in 1..Len(procs) :
        /\ procs[q].parent # 0
        /\ ~procs[q].loadable
        /\ procs[q].bound = "Nix"
        /\ procs[q].code = 1

\* C20: the sweep never closes the device of a non-blocking session whose
\* audio has not ended.
C20_SweepNeverCutsAudio == cut = {}

====
